---- MODULE Spec2Model ----
(***************************************************************************)
(* Grid engine of the 2048 tilt game (src/2048_tilt/src/utils/gameLogic.ts) *)
(* A Grid is a sequence of 4 rows, each a sequence of 4 numbers; 0 is an   *)
(* empty cell.  JavaScript indexes from 0, the sequences here from 1.      *)
(***************************************************************************)
EXTENDS Integers, Sequences, FiniteSets, TLC

VARIABLES grid, op, arg, ret, inputSum, row, rowRet

\* the arrays the program has allocated, each at its reference
VARIABLES heap

\* the state of a GameScreen, the closures that hold a render's values, the
\* timeouts scheduled, the scores sent out, and what has been played
VARIABLES score, bestScore, history, hasWonGame, isMoving,
          rendered, handleMoveRef, lastMoveTimeRef, timers, leaderboard, tally

\* the username the GameScreen holds, what AsyncStorage holds on the device,
\* and best_score of the user's row of user_profiles
VARIABLES currentUsername, storage, profile

sessionVars == <<score, bestScore, history, hasWonGame, isMoving,
                 rendered, handleMoveRef, lastMoveTimeRef, timers, leaderboard, tally,
                 currentUsername, storage, profile>>

vars == <<grid, op, arg, ret, inputSum, row, rowRet, heap, sessionVars>>

-----------------------------------------------------------------------------
(* Program constants *)

\* the literal 4 of every loop bound and of the padding loop
Size == 4

\* the tile hasWon looks for
WinTile == 2048

\* enum Direction
Directions == {"UP", "DOWN", "LEFT", "RIGHT"}

\* values that are no member of Direction: a string in another case, and what
\* a caller passes that passes nothing
NotDirections == {"left", "undefined"}

-----------------------------------------------------------------------------
(* Bounds of the model *)

\* the line that varies in an input grid holds tiles 2^1 .. 2^MaxExp
MaxExp == 2

\* tiles of the input rows of the row primitive are 2^1 .. 2^MaxRowExp
MaxRowExp == 4

\* the input grids with tiles around WinTile hold at most MaxWinEdits of them
MaxWinEdits == 1

\* a session sees at most MaxRequests calls of handleMove and startNewGame
\* together (undo is bounded by the history these leave)
MaxRequests == 2

\* calls of updateBestScore made for one user
MaxCalls == 2

\* a game is played on while its tiles sum to at most MaxSum less a tile 4
MaxSum == 12

-----------------------------------------------------------------------------
(* Helpers *)

Idx == 1..Size

Cells == Idx \X Idx

RECURSIVE Pow2(_)
Pow2(n) == IF n = 0 THEN 1 ELSE 2 * Pow2(n - 1)

RECURSIVE SumFrom(_, _)
SumFrom(s, k) == IF k > Len(s) THEN 0 ELSE s[k] + SumFrom(s, k + 1)

SumSeq(s) == SumFrom(s, 1)

GridSum(g) == SumSeq([r \in Idx |-> SumSeq(g[r])])

NonZero(val) == val # 0

-----------------------------------------------------------------------------
(* gameLogic.ts *)

createEmptyGrid == [r \in Idx |-> [c \in Idx |-> 0]]

\* the assignment g[r][c] = value, r and c 1-based
SetCell(g, r, c, value) ==
    [i \in 1..Len(g) |-> [j \in 1..Len(g[i]) |-> IF i = r /\ j = c THEN value ELSE g[i][j]]]

\* the assignment g[r] = newRow, r 1-based
SetRow(g, r, newRow) == [i \in 1..Len(g) |-> IF i = r THEN newRow ELSE g[i]]

cloneGrid(g) == [r \in 1..Len(g) |-> [c \in 1..Len(g[r]) |-> g[r][c]]]

\* an emptyCells list whose column loop stops one column early
RECURSIVE emptyCellsFromShort(_, _)
emptyCellsFromShort(g, k) ==
    IF k > Size * Size THEN <<>>
    ELSE LET r == ((k - 1) \div Size) + 1
             c == ((k - 1) % Size) + 1
         IN  IF g[r][c] = 0 /\ c < Size
             THEN <<[row |-> r, col |-> c]>> \o emptyCellsFromShort(g, k + 1)
             ELSE emptyCellsFromShort(g, k + 1)

\* the list emptyCells, filled row by row, column by column
RECURSIVE emptyCellsFrom(_, _)
emptyCellsFrom(g, k) ==
    IF k > Size * Size THEN <<>>
    ELSE LET r == ((k - 1) \div Size) + 1
             c == ((k - 1) % Size) + 1
         IN  IF g[r][c] = 0
             THEN <<[row |-> r, col |-> c]>> \o emptyCellsFrom(g, k + 1)
             ELSE emptyCellsFrom(g, k + 1)

emptyCells(g) == emptyCellsFrom(g, 1)

\* the values Math.floor(Math.random() * n) can take
RandomIndexes(n) == IF n = 0 THEN {0} ELSE 0..(n - 1)

\* an addRandomTile that, finding no empty cell, falls back to the first cell
addRandomTileFallback(g, rnd, lt) ==
    LET newGrid == cloneGrid(g)
        cells == emptyCells(newGrid)
        randomCell == IF Len(cells) = 0 THEN [row |-> 1, col |-> 1] ELSE cells[rnd + 1]
        value == IF lt THEN 2 ELSE 4
    IN  SetCell(newGrid, randomCell.row, randomCell.col, value)

\* rnd is Math.floor(Math.random() * emptyCells.length), lt is the outcome of
\* Math.random() < 0.8
addRandomTile(g, rnd, lt) ==
    LET newGrid == cloneGrid(g)
        cells == emptyCells(newGrid)
    IN  IF Len(cells) = 0
        THEN newGrid
        ELSE LET randomCell == cells[rnd + 1]
                 value == IF lt THEN 2 ELSE 4
             IN  SetCell(newGrid, randomCell.row, randomCell.col, value)

\* an initializeGrid that adds one tile only
initializeGridOnce(rnd1, lt1, rnd2, lt2) == addRandomTile(createEmptyGrid, rnd1, lt1)

\* the two addRandomTile calls of initializeGrid, each with its two random
\* draws
initializeGrid(rnd1, lt1, rnd2, lt2) ==
    addRandomTile(addRandomTile(createEmptyGrid, rnd1, lt1), rnd2, lt2)

reverseArray(arr) == [i \in 1..Len(arr) |-> arr[Len(arr) + 1 - i]]

\* a merge loop that closes the gap at once and looks at the merged tile again
RECURSIVE mergeLoopCascade(_, _, _)
mergeLoopCascade(newRow, i, scoreGained) ==
    IF i < Len(newRow) - 1
    THEN IF newRow[i + 1] = newRow[i + 2]
         THEN mergeLoopCascade(SubSeq(newRow, 1, i) \o <<2 * newRow[i + 1]>>
                                   \o SubSeq(newRow, i + 3, Len(newRow)),
                               i, scoreGained + 2 * newRow[i + 1])
         ELSE mergeLoopCascade(newRow, i + 1, scoreGained)
    ELSE [newRow |-> newRow, scoreGained |-> scoreGained]

\* a merge loop that adds the tile's value to the score before doubling it
RECURSIVE mergeLoopHalfScore(_, _, _)
mergeLoopHalfScore(newRow, i, scoreGained) ==
    IF i < Len(newRow) - 1
    THEN IF newRow[i + 1] = newRow[i + 2]
         THEN mergeLoopHalfScore([newRow EXCEPT ![i + 1] = 2 * @, ![i + 2] = 0],
                                 i + 2, scoreGained + newRow[i + 1])
         ELSE mergeLoopHalfScore(newRow, i + 1, scoreGained)
    ELSE [newRow |-> newRow, scoreGained |-> scoreGained]

\* a merge loop that leaves the consumed tile in place
RECURSIVE mergeLoopKeep(_, _, _)
mergeLoopKeep(newRow, i, scoreGained) ==
    IF i < Len(newRow) - 1
    THEN IF newRow[i + 1] = newRow[i + 2]
         THEN mergeLoopKeep([newRow EXCEPT ![i + 1] = 2 * @],
                            i + 2, scoreGained + 2 * newRow[i + 1])
         ELSE mergeLoopKeep(newRow, i + 1, scoreGained)
    ELSE [newRow |-> newRow, scoreGained |-> scoreGained]

\* a merge loop that adds 2 to the tile instead of doubling it
RECURSIVE mergeLoopAddTwo(_, _, _)
mergeLoopAddTwo(newRow, i, scoreGained) ==
    IF i < Len(newRow) - 1
    THEN IF newRow[i + 1] = newRow[i + 2]
         THEN LET merged == [newRow EXCEPT ![i + 1] = @ + 2, ![i + 2] = 0]
              IN  mergeLoopAddTwo(merged, i + 2, scoreGained + merged[i + 1])
         ELSE mergeLoopAddTwo(newRow, i + 1, scoreGained)
    ELSE [newRow |-> newRow, scoreGained |-> scoreGained]

\* the merge loop of slideAndMergeRow; i is the 0-based loop index
RECURSIVE mergeLoop(_, _, _)
mergeLoop(newRow, i, scoreGained) ==
    IF i < Len(newRow) - 1
    THEN IF newRow[i + 1] = newRow[i + 2]
         THEN LET merged == [newRow EXCEPT ![i + 1] = 2 * @, ![i + 2] = 0]
              IN  mergeLoop(merged, i + 2, scoreGained + merged[i + 1])
         ELSE mergeLoop(newRow, i + 1, scoreGained)
    ELSE [newRow |-> newRow, scoreGained |-> scoreGained]

\* a padding loop that puts the zeros in front
RECURSIVE padRowFront(_)
padRowFront(newRow) == IF Len(newRow) < Size THEN padRowFront(<<0>> \o newRow) ELSE newRow

RECURSIVE padRow(_)
padRow(newRow) == IF Len(newRow) < Size THEN padRow(Append(newRow, 0)) ELSE newRow

\* steps 3 and 4 of slideAndMergeRow, on the outcome of the merge loop
compactAndPad(merged) ==
    [newRow |-> padRow(SelectSeq(merged.newRow, NonZero)), scoreGained |-> merged.scoreGained]

slideAndMergeRow(r) == compactAndPad(mergeLoop(SelectSeq(r, NonZero), 0, 0))

\* JSON.stringify of an array of non-negative integers: the decimal digits of
\* each element, separated by commas, in brackets; a sequence of characters
DigitChar == <<"0", "1", "2", "3", "4", "5", "6", "7", "8", "9">>

RECURSIVE NumberToString(_)
NumberToString(n) ==
    IF n < 10 THEN <<DigitChar[n + 1]>>
    ELSE NumberToString(n \div 10) \o <<DigitChar[(n % 10) + 1]>>

RECURSIVE JoinFrom(_, _)
JoinFrom(arr, k) ==
    IF k > Len(arr) THEN <<>>
    ELSE (IF k > 1 THEN <<",">> ELSE <<>>) \o NumberToString(arr[k]) \o JoinFrom(arr, k + 1)

JSONStringify(arr) == <<"[">> \o JoinFrom(arr, 1) \o <<"]">>

\* the loop of moveLeft over the rows; r is the 0-based loop index and res
\* the outcome of slideAndMergeRow on row r
RECURSIVE moveLeftLoop(_, _, _, _)
\* a loop body that takes a row for moved when it scored
moveLeftRowByScore(newGrid, r, totalScore, moved, res) ==
    moveLeftLoop(SetRow(newGrid, r + 1, res.newRow), r + 1,
                 totalScore + res.scoreGained,
                 moved \/ res.scoreGained > 0)

\* a loop body that compares the two rows as objects: a new array is never
\* the array it was made from
moveLeftRowByReference(newGrid, r, totalScore, moved, res) ==
    moveLeftLoop(SetRow(newGrid, r + 1, res.newRow), r + 1,
                 totalScore + res.scoreGained,
                 TRUE)

moveLeftRow(newGrid, r, totalScore, moved, res) ==
    moveLeftLoop(SetRow(newGrid, r + 1, res.newRow), r + 1,
                 totalScore + res.scoreGained,
                 moved \/ JSONStringify(res.newRow) # JSONStringify(newGrid[r + 1]))

moveLeftLoop(newGrid, r, totalScore, moved) ==
    IF r < Size
    THEN moveLeftRow(newGrid, r, totalScore, moved, slideAndMergeRow(newGrid[r + 1]))
    ELSE [newGrid |-> newGrid, scoreGained |-> totalScore, moved |-> moved]

moveLeft(g) == moveLeftLoop(cloneGrid(g), 0, 0, FALSE)

\* the loop of moveRight over the rows; r is the 0-based loop index, res the
\* outcome of slideAndMergeRow on the reversed row r, finalRow its newRow
\* reversed back
RECURSIVE moveRightLoop(_, _, _, _)
moveRightRow(newGrid, r, totalScore, moved, res, finalRow) ==
    moveRightLoop(SetRow(newGrid, r + 1, finalRow), r + 1,
                  totalScore + res.scoreGained,
                  moved \/ JSONStringify(finalRow) # JSONStringify(newGrid[r + 1]))

moveRightReversed(newGrid, r, totalScore, moved, res) ==
    moveRightRow(newGrid, r, totalScore, moved, res, reverseArray(res.newRow))

moveRightLoop(newGrid, r, totalScore, moved) ==
    IF r < Size
    THEN moveRightReversed(newGrid, r, totalScore, moved,
                           slideAndMergeRow(reverseArray(newGrid[r + 1])))
    ELSE [newGrid |-> newGrid, scoreGained |-> totalScore, moved |-> moved]

moveRight(g) == moveRightLoop(cloneGrid(g), 0, 0, FALSE)

\* a transposition that writes newGrid[row][col] instead of newGrid[col][row]
transposeGridSameIndex(g) == [r \in Idx |-> [c \in Idx |-> g[r][c]]]

transposeGrid(g) == [c \in Idx |-> [r \in Idx |-> g[r][c]]]

\* the last two lines of moveUp and of moveDown: transpose back
transposeBack(res) ==
    [newGrid |-> transposeGrid(res.newGrid), scoreGained |-> res.scoreGained, moved |-> res.moved]

moveUp(g) == transposeBack(moveLeft(transposeGrid(g)))

moveDown(g) == transposeBack(moveRight(transposeGrid(g)))

\* a move whose default case moves left
moveDefaultLeft(g, direction) ==
    CASE direction = "UP" -> moveUp(g)
      [] direction = "DOWN" -> moveDown(g)
      [] direction = "RIGHT" -> moveRight(g)
      [] OTHER -> moveLeft(g)

move(g, direction) ==
    CASE direction = "UP" -> moveUp(g)
      [] direction = "DOWN" -> moveDown(g)
      [] direction = "LEFT" -> moveLeft(g)
      [] direction = "RIGHT" -> moveRight(g)
      [] OTHER -> [newGrid |-> g, scoreGained |-> 0, moved |-> FALSE]

\* an empty-cell scan whose column loop stops one column early
hasEmptyCellShort(g) == \E r \in 0..(Size - 1) : \E c \in 0..(Size - 2) : g[r + 1][c + 1] = 0

\* the first pair of loops of isGameOver: is some cell 0
hasEmptyCell(g) == \E r \in 0..(Size - 1) : \E c \in 0..(Size - 1) : g[r + 1][c + 1] = 0

\* neighbour tests that look left and right only
hasEqualNeighbourInRow(g, r, c) ==
    LET current == g[r + 1][c + 1]
    IN  \/ (c > 0 /\ g[r + 1][c] = current)
        \/ (c < Size - 1 /\ g[r + 1][c + 2] = current)

\* the four neighbour tests of the second pair of loops, r and c 0-based
hasEqualNeighbour(g, r, c) ==
    LET current == g[r + 1][c + 1]
    IN  \/ (r > 0 /\ g[r][c + 1] = current)
        \/ (r < Size - 1 /\ g[r + 2][c + 1] = current)
        \/ (c > 0 /\ g[r + 1][c] = current)
        \/ (c < Size - 1 /\ g[r + 1][c + 2] = current)

isGameOver(g) ==
    IF hasEmptyCell(g) THEN FALSE
    ELSE IF \E r \in 0..(Size - 1) : \E c \in 0..(Size - 1) : hasEqualNeighbour(g, r, c)
         THEN FALSE
         ELSE TRUE

\* a scan that takes any tile of at least 2048 for a win
RECURSIVE hasWonFromAtLeast(_, _)
hasWonFromAtLeast(g, k) ==
    IF k >= Size * Size THEN FALSE
    ELSE IF g[(k \div Size) + 1][(k % Size) + 1] >= WinTile THEN TRUE
         ELSE hasWonFromAtLeast(g, k + 1)

\* the scan of hasWon in row-major order, k the number of cells already seen
RECURSIVE hasWonFrom(_, _)
hasWonFrom(g, k) ==
    IF k >= Size * Size THEN FALSE
    ELSE IF g[(k \div Size) + 1][(k % Size) + 1] = WinTile THEN TRUE
         ELSE hasWonFrom(g, k + 1)

hasWon(g) == hasWonFrom(g, 0)

-----------------------------------------------------------------------------
(* Input grids and rows *)

SmallTiles == {Pow2(e) : e \in 1..MaxExp}

\* the tiles on both sides of the winning tile
WinTiles == {WinTile \div 2, WinTile, WinTile * 2}

\* a full grid with no two equal neighbours, over the tiles 2, 4, 8 and 16
Weave == [r \in Idx |-> [c \in Idx |-> Pow2(1 + ((r + 2 * c) % 4))]]

WithColumn(g, k, line) == [r \in Idx |-> [c \in Idx |-> IF c = k THEN line[r] ELSE g[r][c]]]

\* the grids that are base but for one row or one column, which is any line
\* of empty cells and small tiles
OneLineGrids(base) ==
    LET lines == [Idx -> {0} \cup SmallTiles]
    IN  {SetRow(base, k, line) : k \in Idx, line \in lines}
            \cup {WithColumn(base, k, line) : k \in Idx, line \in lines}

\* the grids that differ from a grid of S in at most k cells, the changed
\* cells holding values of vals
RECURSIVE Edited(_, _, _)
Edited(S, vals, k) ==
    IF k = 0 THEN S
    ELSE Edited(S \cup {SetCell(g, p[1], p[2], v) : g \in S, p \in Cells, v \in vals},
                vals, k - 1)

InputGrids ==
    OneLineGrids(createEmptyGrid)
        \cup OneLineGrids(Weave)
        \cup Edited({Weave}, WinTiles, MaxWinEdits)

InputRows == [Idx -> {0} \cup {Pow2(e) : e \in 1..MaxRowExp}]

NoRet == [newGrid |-> createEmptyGrid, scoreGained |-> 0, moved |-> FALSE, bool |-> FALSE]

NoRow == [c \in Idx |-> 0]

NoRowRet == [newRow |-> NoRow, scoreGained |-> 0]

\* lastMoveTimeRef when MOVE_INTERVAL or more has passed since the last tilt;
\* within the interval, lastMoveTimeRef is the number of spawn timeouts that
\* had been set by the time of the tilt and have not run
LongAgo == -1

\* history before the first move: null
NoHistory == [grid |-> <<>>, score |-> -1]

\* no GameScreen is mounted
NoClosure == [grid |-> <<>>, score |-> 0, bestScore |-> 0, hasWonGame |-> FALSE, isMoving |-> FALSE,
              history |-> NoHistory, currentUsername |-> "guest"]

\* nothing played yet: the calls of handleMove, those among them that move
\* reported unmoved, those accepted, the scoreGained of the accepted ones
\* summed, the spawns done, and the score the game started with; the scores
\* updateBestScore has taken; the alerts 'Congratulation!' of this game,
\* whether the session has been moves only (no undo, no new game), grid and
\* score before the last accepted move, and the presses of the buttons Undo
\* and New Game
NoTally == [requests |-> 0, rejected |-> 0, accepted |-> 0, gained |-> 0, spawned |-> 0,
            startScore |-> 0, submitted |-> {}, alerts |-> 0, plain |-> TRUE,
            before |-> NoHistory, presses |-> 0]

\* the usernames a GameScreen saves under: the one of the account logged in
\* on the device, and 'guest'
Usernames == {"guest", "alice"}

\* a key AsyncStorage does not hold: getItem returns null
NoItem == [grid |-> <<>>, score |-> -1, bestScore |-> -1]

\* AsyncStorage of a device nobody has logged in or played on: current_user,
\* game_state_<username> and best_score_<username>
NoStorage == [currentUser |-> "",
              gameState |-> [u \in Usernames |-> NoItem],
              bestScore |-> [u \in Usernames |-> -1]]

SessionOff ==
    /\ currentUsername = "guest"
    /\ storage = NoStorage
    /\ profile = 0
    /\ score = 0
    /\ bestScore = 0
    /\ history = NoHistory
    /\ hasWonGame = FALSE
    /\ isMoving = FALSE
    /\ rendered = NoClosure
    /\ handleMoveRef = NoClosure
    /\ lastMoveTimeRef = LongAgo
    /\ timers = <<>>
    /\ leaderboard = <<>>
    /\ tally = NoTally

-----------------------------------------------------------------------------
(* The engine called on an input grid: one move, one spawn, or a move and  *)
(* the spawn that follows it; or one of the two predicates.  grid is the   *)
(* grid the caller holds, arg and ret the argument and the result of the   *)
(* last call (ret.moved stays TRUE through the spawn that follows an       *)
(* accepted move), inputSum the sum of the cells of the input grid.        *)

Init ==
    /\ grid \in InputGrids
    /\ op = "none"
    /\ arg = grid
    /\ ret = NoRet
    /\ inputSum = GridSum(grid)
    /\ row = NoRow
    /\ rowRet = NoRowRet
    /\ heap = <<>>
    /\ SessionOff

Move(d) ==
    /\ op = "none"
    /\ ret' = move(grid, d) @@ NoRet
    /\ grid' = ret'.newGrid
    /\ op' = d
    /\ arg' = grid
    /\ UNCHANGED <<inputSum, row, rowRet, heap, sessionVars>>

\* an accepted move (moved = true) hands its newGrid on to the spawn
Accept ==
    /\ op \in Directions
    /\ ret.moved
    /\ op' = "moved"
    /\ arg' = grid
    /\ ret' = [NoRet EXCEPT !.moved = TRUE]
    /\ UNCHANGED <<grid, inputSum, row, rowRet, heap, sessionVars>>

AddRandomTile ==
    /\ op \in {"none", "moved"}
    /\ \E rnd \in RandomIndexes(Len(emptyCells(grid))), lt \in BOOLEAN :
          /\ ret' = [ret EXCEPT !.newGrid = addRandomTile(grid, rnd, lt)]
          /\ grid' = ret'.newGrid
    /\ op' = "addRandomTile"
    /\ arg' = grid
    /\ UNCHANGED <<inputSum, row, rowRet, heap, sessionVars>>

IsGameOver ==
    /\ op = "none"
    /\ ret' = [NoRet EXCEPT !.bool = isGameOver(grid)]
    /\ op' = "isGameOver"
    /\ arg' = grid
    /\ UNCHANGED <<grid, inputSum, row, rowRet, heap, sessionVars>>

HasWon ==
    /\ op = "none"
    /\ ret' = [NoRet EXCEPT !.bool = hasWon(grid)]
    /\ op' = "hasWon"
    /\ arg' = grid
    /\ UNCHANGED <<grid, inputSum, row, rowRet, heap, sessionVars>>

Next ==
    \/ \E d \in Directions : Move(d)
    \/ \E d \in NotDirections : Move(d)
    \/ Accept
    \/ AddRandomTile
    \/ IsGameOver
    \/ HasWon

Spec == Init /\ [][Next]_vars

-----------------------------------------------------------------------------
(* The row primitive called on an input row *)

InitRow ==
    /\ row \in InputRows
    /\ rowRet = NoRowRet
    /\ op = "none"
    /\ grid = createEmptyGrid
    /\ arg = createEmptyGrid
    /\ ret = NoRet
    /\ inputSum = 0
    /\ heap = <<>>
    /\ SessionOff

SlideAndMergeRow ==
    /\ op = "none"
    /\ rowRet' = slideAndMergeRow(row)
    /\ op' = "slideAndMergeRow"
    /\ UNCHANGED <<grid, arg, ret, inputSum, row, heap, sessionVars>>

NextRow == SlideAndMergeRow

SpecRow == InitRow /\ [][NextRow]_vars

-----------------------------------------------------------------------------
(* A game played on the engine alone: initializeGrid, then moves and       *)
(* spawns in any order.  op is the last call made.                         *)

InitGame ==
    /\ grid = createEmptyGrid
    /\ op = "none"
    /\ arg = createEmptyGrid
    /\ ret = NoRet
    /\ inputSum = 0
    /\ row = NoRow
    /\ rowRet = NoRowRet
    /\ heap = <<>>
    /\ SessionOff

InitializeGrid ==
    /\ op = "none"
    /\ \E rnd1 \in RandomIndexes(Size * Size), lt1 \in BOOLEAN,
          rnd2 \in RandomIndexes(Size * Size - 1), lt2 \in BOOLEAN :
          grid' = initializeGrid(rnd1, lt1, rnd2, lt2)
    /\ op' = "initializeGrid"
    /\ UNCHANGED <<arg, ret, inputSum, row, rowRet, heap, sessionVars>>

GameMove(d) ==
    /\ op # "none"
    /\ grid' = move(grid, d).newGrid
    /\ op' = d
    /\ UNCHANGED <<arg, ret, inputSum, row, rowRet, heap, sessionVars>>

GameSpawn ==
    /\ op # "none"
    /\ GridSum(grid) + 4 <= MaxSum
    /\ \E rnd \in RandomIndexes(Len(emptyCells(grid))), lt \in BOOLEAN :
          grid' = addRandomTile(grid, rnd, lt)
    /\ op' = "addRandomTile"
    /\ UNCHANGED <<arg, ret, inputSum, row, rowRet, heap, sessionVars>>

NextGame ==
    \/ InitializeGrid
    \/ \E d \in Directions : GameMove(d)
    \/ GameSpawn

SpecGame == InitGame /\ [][NextGame]_vars

-----------------------------------------------------------------------------
(* The engine on arrays that have an identity.  The heap is the sequence   *)
(* of the arrays allocated so far and a reference is an index into it; a   *)
(* row is an array of numbers, a grid an array of references to its rows.  *)
(* Each function takes the heap and returns the heap it leaves.            *)

\* the grid a reference stands for
Deref(h, g) == [r \in 1..Len(h[g]) |-> h[h[g][r]]]

\* the assignment a[i] = v on the array at reference a, i 1-based
WriteElement(h, a, i, v) ==
    [k \in 1..Len(h) |->
        IF k = a THEN [j \in 1..Len(h[k]) |-> IF j = i THEN v ELSE h[k][j]] ELSE h[k]]

\* the heap that holds the grid g alone: its rows, then the array of them
HeapOf(g) == [k \in 1..(Size + 1) |-> IF k <= Size THEN g[k] ELSE [r \in Idx |-> r]]

\* the reference of the grid in HeapOf
InputRef == Size + 1

\* a new array of Size references to new rows, the rows holding contents
NewGridOnHeap(h, contents) ==
    [heap |-> h \o contents \o <<[r \in 1..Len(contents) |-> Len(h) + r]>>,
     ref |-> Len(h) + Len(contents) + 1]

createEmptyGridOnHeap(h) == NewGridOnHeap(h, createEmptyGrid)

\* a clone that copies the outer array only: grid.map(row => row)
cloneGridShallow(h, g) == [heap |-> Append(h, h[g]), ref |-> Len(h) + 1]

\* grid.map(row => [...row]): a new outer array of new rows
cloneGridOnHeap(h, g) == NewGridOnHeap(h, Deref(h, g))

\* the assignment newGrid[row][col] = value in the clone c
addRandomTileWrite(c, cells, rnd, lt) ==
    IF Len(cells) = 0
    THEN c
    ELSE [heap |-> WriteElement(c.heap, c.heap[c.ref][cells[rnd + 1].row],
                                cells[rnd + 1].col, IF lt THEN 2 ELSE 4),
          ref |-> c.ref]

addRandomTileCloned(c, rnd, lt) == addRandomTileWrite(c, emptyCells(Deref(c.heap, c.ref)), rnd, lt)

addRandomTileOnHeap(h, g, rnd, lt) == addRandomTileCloned(cloneGridOnHeap(h, g), rnd, lt)

\* [...arr].reverse(): a new array
reverseArrayOnHeap(h, a) == [heap |-> Append(h, reverseArray(h[a])), ref |-> Len(h) + 1]

\* slideAndMergeRow reads its row and returns a new array (row.filter)
slideAndMergeRowOnHeap(h, a, res) ==
    [heap |-> Append(h, res.newRow), ref |-> Len(h) + 1, scoreGained |-> res.scoreGained]

RECURSIVE moveLeftLoopOnHeap(_, _, _, _, _)
\* the body of moveLeft's loop: the comparison, then newGrid[row] = newRow
moveLeftRowOnHeap(h, newGrid, r, totalScore, moved, res) ==
    moveLeftLoopOnHeap(WriteElement(res.heap, newGrid, r + 1, res.ref), newGrid, r + 1,
                       totalScore + res.scoreGained,
                       moved \/ JSONStringify(h[h[newGrid][r + 1]]) # JSONStringify(res.heap[res.ref]))

moveLeftLoopOnHeap(h, newGrid, r, totalScore, moved) ==
    IF r < Size
    THEN moveLeftRowOnHeap(h, newGrid, r, totalScore, moved,
                           slideAndMergeRowOnHeap(h, h[newGrid][r + 1],
                                                  slideAndMergeRow(h[h[newGrid][r + 1]])))
    ELSE [heap |-> h, newGrid |-> newGrid, scoreGained |-> totalScore, moved |-> moved]

moveLeftCloned(c) == moveLeftLoopOnHeap(c.heap, c.ref, 0, 0, FALSE)

moveLeftOnHeap(h, g) == moveLeftCloned(cloneGridOnHeap(h, g))

RECURSIVE moveRightLoopOnHeap(_, _, _, _, _)
\* the end of the body of moveRight's loop, finalRow in hand
moveRightRowOnHeap(h, newGrid, r, totalScore, moved, res, finalRow) ==
    moveRightLoopOnHeap(WriteElement(finalRow.heap, newGrid, r + 1, finalRow.ref), newGrid, r + 1,
                        totalScore + res.scoreGained,
                        moved \/ JSONStringify(h[h[newGrid][r + 1]])
                                     # JSONStringify(finalRow.heap[finalRow.ref]))

moveRightSlid(h, newGrid, r, totalScore, moved, res) ==
    moveRightRowOnHeap(h, newGrid, r, totalScore, moved, res, reverseArrayOnHeap(res.heap, res.ref))

moveRightReversedOnHeap(h, newGrid, r, totalScore, moved, reversedRow) ==
    moveRightSlid(h, newGrid, r, totalScore, moved,
                  slideAndMergeRowOnHeap(reversedRow.heap, reversedRow.ref,
                                         slideAndMergeRow(reversedRow.heap[reversedRow.ref])))

moveRightLoopOnHeap(h, newGrid, r, totalScore, moved) ==
    IF r < Size
    THEN moveRightReversedOnHeap(h, newGrid, r, totalScore, moved,
                                 reverseArrayOnHeap(h, h[newGrid][r + 1]))
    ELSE [heap |-> h, newGrid |-> newGrid, scoreGained |-> totalScore, moved |-> moved]

moveRightCloned(c) == moveRightLoopOnHeap(c.heap, c.ref, 0, 0, FALSE)

moveRightOnHeap(h, g) == moveRightCloned(cloneGridOnHeap(h, g))

\* the assignments transposed[j][i] = grid[i][j], on the new grid e
transposeGridWrite(e, g) ==
    [heap |-> [k \in 1..Len(e.heap) |->
                  IF \E j \in Idx : e.heap[e.ref][j] = k
                  THEN LET j == CHOOSE j \in Idx : e.heap[e.ref][j] = k
                       IN  [i \in Idx |-> e.heap[e.heap[g][i]][j]]
                  ELSE e.heap[k]],
     ref |-> e.ref]

transposeGridOnHeap(h, g) == transposeGridWrite(createEmptyGridOnHeap(h), g)

\* the last two lines of moveUp and of moveDown, t the transposed back grid
transposeBackReturn(res, t) ==
    [heap |-> t.heap, newGrid |-> t.ref, scoreGained |-> res.scoreGained, moved |-> res.moved]

transposeBackOnHeap(res) == transposeBackReturn(res, transposeGridOnHeap(res.heap, res.newGrid))

moveUpTransposed(t) == transposeBackOnHeap(moveLeftOnHeap(t.heap, t.ref))

moveUpOnHeap(h, g) == moveUpTransposed(transposeGridOnHeap(h, g))

moveDownTransposed(t) == transposeBackOnHeap(moveRightOnHeap(t.heap, t.ref))

moveDownOnHeap(h, g) == moveDownTransposed(transposeGridOnHeap(h, g))

moveOnHeap(h, g, direction) ==
    CASE direction = "UP" -> moveUpOnHeap(h, g)
      [] direction = "DOWN" -> moveDownOnHeap(h, g)
      [] direction = "LEFT" -> moveLeftOnHeap(h, g)
      [] direction = "RIGHT" -> moveRightOnHeap(h, g)
      [] OTHER -> [heap |-> h, newGrid |-> g, scoreGained |-> 0, moved |-> FALSE]

(* One call on the grid the caller holds at InputRef.  grid is that grid   *)
(* as it was before the call and arg as it is after it; ret.newGrid is the *)
(* grid returned.                                                          *)

InitHeap ==
    /\ grid \in InputGrids
    /\ heap = HeapOf(grid)
    /\ op = "none"
    /\ arg = grid
    /\ ret = NoRet
    /\ inputSum = GridSum(grid)
    /\ row = NoRow
    /\ rowRet = NoRowRet
    /\ SessionOff

MoveOnHeap(d) ==
    /\ op = "none"
    /\ \E res \in {moveOnHeap(heap, InputRef, d)} :
          /\ heap' = res.heap
          /\ ret' = [NoRet EXCEPT !.newGrid = Deref(res.heap, res.newGrid),
                                  !.scoreGained = res.scoreGained,
                                  !.moved = res.moved]
    /\ arg' = Deref(heap', InputRef)
    /\ op' = d
    /\ UNCHANGED <<grid, inputSum, row, rowRet, sessionVars>>

AddRandomTileOnHeap ==
    /\ op = "none"
    /\ \E rnd \in RandomIndexes(Len(emptyCells(grid))), lt \in BOOLEAN :
          \E res \in {addRandomTileOnHeap(heap, InputRef, rnd, lt)} :
              /\ heap' = res.heap
              /\ ret' = [NoRet EXCEPT !.newGrid = Deref(res.heap, res.ref)]
    /\ arg' = Deref(heap', InputRef)
    /\ op' = "addRandomTile"
    /\ UNCHANGED <<grid, inputSum, row, rowRet, sessionVars>>

CloneGridOnHeap ==
    /\ op = "none"
    /\ \E res \in {cloneGridOnHeap(heap, InputRef)} :
          /\ heap' = res.heap
          /\ ret' = [NoRet EXCEPT !.newGrid = Deref(res.heap, res.ref)]
    /\ arg' = Deref(heap', InputRef)
    /\ op' = "cloneGrid"
    /\ UNCHANGED <<grid, inputSum, row, rowRet, sessionVars>>

NextHeap ==
    \/ \E d \in Directions : MoveOnHeap(d)
    \/ \E d \in NotDirections : MoveOnHeap(d)
    \/ AddRandomTileOnHeap
    \/ CloneGridOnHeap

SpecHeap == InitHeap /\ [][NextHeap]_vars

-----------------------------------------------------------------------------
(* A GameScreen.  grid, score, bestScore, history, hasWonGame, isMoving    *)
(* and currentUsername are its state as the last set call left it.  A      *)
(* function defined in the component sees the values of the render that    *)
(* defined it: rendered is the closure of the last render, which the touch *)
(* handlers and the buttons use, and handleMoveRef the closure of the      *)
(* render whose effects ran last: of the handleMove in                     *)
(* handleMoveRef.current, which the accelerometer listener calls.  timers  *)
(* holds the callbacks given to setTimeout and not yet run, and the        *)
(* promises awaited and not yet resolved.  op is the last operation if it  *)
(* was an undo, a new game or the Game Over alert.                         *)

\* the values a render hands to the functions it defines
Closure == [grid |-> grid, score |-> score, bestScore |-> bestScore,
            hasWonGame |-> hasWonGame, isMoving |-> isMoving,
            history |-> history, currentUsername |-> currentUsername]

(* storageUtils: AsyncStorage under the keys of a username *)

saveGameState(st, username, gameState) ==
    [currentUser |-> st.currentUser,
     gameState |-> [u \in Usernames |-> IF u = username THEN gameState ELSE st.gameState[u]],
     bestScore |-> st.bestScore]

clearGameState(st, username) ==
    [currentUser |-> st.currentUser,
     gameState |-> [u \in Usernames |-> IF u = username THEN NoItem ELSE st.gameState[u]],
     bestScore |-> st.bestScore]

saveBestScore(st, username, best) ==
    [currentUser |-> st.currentUser,
     gameState |-> st.gameState,
     bestScore |-> [u \in Usernames |-> IF u = username THEN best ELSE st.bestScore[u]]]

\* data ? parseInt(data, 10) : 0
getBestScore(st, username) == IF st.bestScore[username] = -1 THEN 0 ELSE st.bestScore[username]

\* the username initUser sets: username || 'guest' ("" is the null that
\* getCurrentUser returns when the key current_user is not set)
initUser(st) == IF st.currentUser = "" THEN "guest" ELSE st.currentUser

\* the autoSave effect of the render c
autoSave(c, st) ==
    IF c.currentUsername # ""
    THEN saveGameState(st, c.currentUsername,
                       [grid |-> c.grid, score |-> c.score, bestScore |-> c.bestScore])
    ELSE st

\* AsyncStorage after the effects of the render cur have run, prev being the
\* render whose effects ran last: autoSave runs after the first render and
\* when grid, score, bestScore or currentUsername has changed
effects(prev, cur, st) ==
    IF prev = cur THEN st
    ELSE IF \/ prev = NoClosure
            \/ prev.grid # cur.grid
            \/ prev.score # cur.score
            \/ prev.bestScore # cur.bestScore
            \/ prev.currentUsername # cur.currentUsername
         THEN autoSave(cur, st)
         ELSE st

\* a handleMove that goes on to the spawn whether the grid moved or not
handleMoveAlways(c, res) ==
    [history |-> [grid |-> cloneGrid(c.grid), score |-> c.score],
     moved |-> res.moved,
     timeout |-> <<[kind |-> "spawn", newGrid |-> res.newGrid, score |-> c.score,
                    scoreGained |-> res.scoreGained, bestScore |-> c.bestScore,
                    hasWonGame |-> c.hasWonGame, currentUsername |-> c.currentUsername]>>]

\* handleMove past its guard, res the result of move(grid, direction): the
\* history it sets, and the callback it gives to setTimeout when moved
handleMoveUnguarded(c, res) ==
    [history |-> [grid |-> cloneGrid(c.grid), score |-> c.score],
     moved |-> res.moved,
     timeout |-> IF ~res.moved
                 THEN <<>>
                 ELSE <<[kind |-> "spawn", newGrid |-> res.newGrid, score |-> c.score,
                         scoreGained |-> res.scoreGained, bestScore |-> c.bestScore,
                         hasWonGame |-> c.hasWonGame, currentUsername |-> c.currentUsername]>>]

\* the callback that checks the grid as it was before the spawn
delayedStepChecksBefore(t, gridWithNewTile) ==
    [grid |-> gridWithNewTile,
     score |-> t.score + t.scoreGained,
     setBestScore |-> t.score + t.scoreGained > t.bestScore,
     setHasWonGame |-> ~t.hasWonGame /\ hasWon(t.newGrid),
     timeout |-> IF isGameOver(t.newGrid)
                 THEN <<[kind |-> "gameOver", newScore |-> t.score + t.scoreGained,
                         bestScore |-> t.bestScore, currentUsername |-> t.currentUsername]>>
                 ELSE <<>>]

\* the callback of handleMove's setTimeout, gridWithNewTile the result of
\* addRandomTile(newGrid): what it sets (setHasWonGame comes with the
\* timeout of the alert 'Congratulation!'), and the handleGameOver it
\* schedules
delayedStep(t, gridWithNewTile) ==
    [grid |-> gridWithNewTile,
     score |-> t.score + t.scoreGained,
     setBestScore |-> t.score + t.scoreGained > t.bestScore,
     setHasWonGame |-> ~t.hasWonGame /\ hasWon(gridWithNewTile),
     timeout |-> IF isGameOver(gridWithNewTile)
                 THEN <<[kind |-> "gameOver", newScore |-> t.score + t.scoreGained,
                         bestScore |-> t.bestScore, currentUsername |-> t.currentUsername]>>
                 ELSE <<>>]

\* handleGameOver up to its await of getSupabaseUser: AsyncStorage after
\* saveBestScore and clearGameState
handleGameOver(t, st) ==
    clearGameState(IF t.newScore > t.bestScore
                   THEN saveBestScore(st, t.currentUsername, t.newScore)
                   ELSE st,
                   t.currentUsername)

\* updateBestScore when no other call is in flight
updateBestScore(best_score, newScore) == IF newScore > best_score THEN newScore ELSE best_score

\* a handleGameOver that uploads whether a user is logged in or not
uploadAlways(t, best_score, scores) ==
    [profile |-> updateBestScore(best_score, t.newScore),
     leaderboard |-> Append(scores, t.newScore)]

\* handleGameOver after getSupabaseUser has returned: best_score of the
\* user's row and the scores uploaded, when it shows the alert
upload(t, best_score, scores) ==
    IF t.supabaseUser
    THEN [profile |-> updateBestScore(best_score, t.newScore),
          leaderboard |-> Append(scores, t.newScore)]
    ELSE [profile |-> best_score, leaderboard |-> scores]

\* what undo sets, called from the render c, on the state <<g, s, h>>
undo(c, g, s, h) ==
    IF c.history # NoHistory
    THEN [grid |-> c.history.grid, score |-> c.history.score, history |-> NoHistory]
    ELSE [grid |-> g, score |-> s, history |-> h]

\* the first timer of a kind, if any: timers of one delay run in the order
\* they were set
FirstTimer(kind) ==
    IF \E i \in 1..Len(timers) : timers[i].kind = kind
    THEN {CHOOSE i \in 1..Len(timers) :
              timers[i].kind = kind /\ \A j \in 1..(i - 1) : timers[j].kind # kind}
    ELSE {}

WithoutTimer(i) == SubSeq(timers, 1, i - 1) \o SubSeq(timers, i + 1, Len(timers))

(* Saved games a GameScreen is resumed from *)

\* a full grid but for its first cell: a move LEFT and a spawned 2 end the game
NearOver == SetCell(Weave, 1, 1, 0)

\* two tiles 1024 side by side in a full grid
NearWin == SetRow(Weave, 1, <<1024, 1024, 16, 4>>)

\* two tiles 2 side by side in the last row, and an empty cell
MidGame == SetRow(Weave, Size, <<2, 2, 0, 2>>)

\* two pairs in the last row, one of them under a tile 4: a move LEFT gains
\* 12 and a move UP 8
TwoLines == SetRow(Weave, Size, <<4, 4, 2, 2>>)

SavedGames ==
    {[grid |-> NearOver, score |-> 20, bestScore |-> 20],
     [grid |-> NearWin, score |-> 0, bestScore |-> 4000],
     [grid |-> MidGame, score |-> 0, bestScore |-> 0],
     [grid |-> TwoLines, score |-> 200, bestScore |-> 200]}

\* one pair left in a full grid: a move LEFT gains 8 and a spawned 2 ends
\* the game
LastPair == SetRow(Weave, 1, <<4, 4, 16, 4>>)

\* the saved games of the guest
GuestGames ==
    {[grid |-> NearOver, score |-> 20, bestScore |-> 20],
     [grid |-> LastPair, score |-> 20, bestScore |-> 20]}

\* the values of Math.floor(Math.random() * n) tried: the first and the last
SampleIndexes(n) == {i \in RandomIndexes(n) : i = 0 \/ i = n - 1}

\* the random draws of initializeGrid tried: two tiles 2 side by side, a 2
\* and a 4 in opposite corners
NewGameDraws == {<<0, TRUE, 0, TRUE>>, <<15, TRUE, 0, FALSE>>}

\* a GameScreen after its first render, its effects not run yet: opened by
\* Resume on the saved game of the current user, who is logged in ('alice')
\* or plays in guest mode ('guest')
InitSession ==
    /\ \E user \in Usernames :
          \E initialGameState \in (IF user = "guest" THEN GuestGames ELSE SavedGames) :
              /\ storage = [currentUser |-> user,
                            gameState |-> [u \in Usernames |->
                                              IF u = user THEN initialGameState ELSE NoItem],
                            bestScore |-> [u \in Usernames |-> -1]]
              /\ grid = initialGameState.grid
              /\ score = initialGameState.score
              /\ bestScore = initialGameState.bestScore
    /\ currentUsername = "guest"
    /\ profile = 0
    /\ history = NoHistory
    /\ hasWonGame = FALSE
    /\ isMoving = FALSE
    /\ rendered = Closure
    /\ handleMoveRef = NoClosure
    /\ lastMoveTimeRef = LongAgo
    /\ timers = <<>>
    /\ leaderboard = <<>>
    /\ tally = [NoTally EXCEPT !.startScore = score]
    /\ op = "none"
    /\ arg = createEmptyGrid
    /\ ret = NoRet
    /\ inputSum = 0
    /\ row = NoRow
    /\ rowRet = NoRowRet
    /\ heap = <<>>

\* the effects of the first render have run, getCurrentUser has returned and
\* the username it gave has been rendered (some milliseconds after the
\* GameScreen opens)
Mounted(c) ==
    /\ handleMoveRef # NoClosure
    /\ FirstTimer("initUser") = {}
    /\ c.currentUsername = currentUsername

\* handleMove(direction) as the function that closes over c
HandleMove(c, direction) ==
    /\ tally.requests + tally.presses < MaxRequests
    /\ Mounted(c)
    /\ IF c.isMoving
       THEN /\ tally' = [tally EXCEPT !.requests = @ + 1]
            /\ UNCHANGED <<history, isMoving, timers>>
       ELSE \E h \in {handleMoveUnguarded(c, move(c.grid, direction))} :
                /\ history' = h.history
                /\ isMoving' = (isMoving \/ h.timeout # <<>>)
                /\ timers' = timers \o h.timeout
                /\ tally' = [tally EXCEPT !.requests = @ + 1,
                                          !.rejected = @ + (IF h.moved THEN 0 ELSE 1),
                                          !.accepted = @ + Len(h.timeout),
                                          !.gained = @ + (IF h.timeout # <<>>
                                                          THEN h.timeout[1].scoreGained ELSE 0),
                                          !.before = IF h.timeout # <<>>
                                                     THEN [grid |-> grid, score |-> score]
                                                     ELSE @]
    /\ op' = "none"
    /\ UNCHANGED <<grid, score, bestScore, hasWonGame, leaderboard, currentUsername, profile>>
    /\ UNCHANGED <<arg, ret, inputSum, row, rowRet, heap>>

\* React renders what a handler of its own events (a touch, a button) has
\* set when the handler returns: the effects of the render before are run,
\* if they have not been, and the functions of the component defined anew
RenderedByHandler ==
    /\ handleMoveRef' = rendered
    /\ storage' = effects(handleMoveRef, rendered, storage)
    /\ rendered' = [grid |-> grid', score |-> score', bestScore |-> bestScore',
                    hasWonGame |-> hasWonGame', isMoving |-> isMoving',
                    history |-> history', currentUsername |-> currentUsername']

\* a swipe ends on the grid: onTouchEnd returns when isMoving, else calls the
\* handleMove of the render it belongs to
OnTouchEnd(direction) ==
    /\ ~rendered.isMoving
    /\ HandleMove(rendered, direction)
    /\ RenderedByHandler
    /\ UNCHANGED lastMoveTimeRef

\* the accelerometer listener sees a tilt MOVE_INTERVAL or more after the
\* last one and calls handleMoveRef.current; what the call sets is rendered
\* later
AccelerometerListener(direction) ==
    /\ lastMoveTimeRef = LongAgo
    /\ HandleMove(handleMoveRef, direction)
    /\ lastMoveTimeRef' = Len(SelectSeq(timers', LAMBDA t : t.kind = "spawn"))
    /\ UNCHANGED <<rendered, handleMoveRef, storage>>

\* MOVE_INTERVAL (500 ms) has passed since the last tilt: every timeout of
\* 150 ms that was set by then has run
MoveIntervalPasses ==
    /\ lastMoveTimeRef = 0
    /\ lastMoveTimeRef' = LongAgo
    /\ op' = "none"
    /\ UNCHANGED <<grid, score, bestScore, history, hasWonGame, isMoving, rendered,
                   handleMoveRef, timers, leaderboard, tally>>
    /\ UNCHANGED <<currentUsername, storage, profile>>
    /\ UNCHANGED <<arg, ret, inputSum, row, rowRet, heap>>

\* the Undo button (disabled when the render has isMoving) is pressed, on a
\* screen that shows the state as it is
Undo ==
    /\ Mounted(rendered)
    /\ rendered = Closure
    /\ ~rendered.isMoving
    /\ \E u \in {undo(rendered, grid, score, history)} :
          /\ grid' = u.grid
          /\ score' = u.score
          /\ history' = u.history
    /\ tally' = [tally EXCEPT !.plain = @ /\ rendered.history = NoHistory,
                              !.before = NoHistory]
    /\ op' = "undo"
    /\ UNCHANGED <<bestScore, hasWonGame, isMoving, lastMoveTimeRef, timers, leaderboard,
                   currentUsername, profile>>
    /\ RenderedByHandler
    /\ UNCHANGED <<arg, ret, inputSum, row, rowRet, heap>>

\* startNewGame, from the New Game button (disabled when the render has
\* isMoving) or from the Game Over alert
StartNewGame ==
    /\ tally.requests + tally.presses < MaxRequests
    /\ Mounted(rendered)
    /\ rendered = Closure
    /\ ~rendered.isMoving
    /\ \E draw \in NewGameDraws :
          grid' = initializeGrid(draw[1], draw[2], draw[3], draw[4])
    /\ score' = 0
    /\ history' = NoHistory
    /\ hasWonGame' = FALSE
    /\ UNCHANGED <<bestScore, isMoving, lastMoveTimeRef, timers, leaderboard,
                   currentUsername, profile>>
    /\ handleMoveRef' = rendered
    /\ storage' = IF rendered.currentUsername # ""
                  THEN clearGameState(effects(handleMoveRef, rendered, storage),
                                      rendered.currentUsername)
                  ELSE effects(handleMoveRef, rendered, storage)
    /\ rendered' = [grid |-> grid', score |-> score', bestScore |-> bestScore',
                    hasWonGame |-> hasWonGame', isMoving |-> isMoving',
                    history |-> history', currentUsername |-> currentUsername']
    /\ tally' = [tally EXCEPT !.plain = FALSE, !.alerts = 0, !.presses = @ + 1,
                              !.before = NoHistory]
    /\ op' = "startNewGame"
    /\ UNCHANGED <<arg, ret, inputSum, row, rowRet, heap>>

\* the callback of handleMove's setTimeout runs, 150 ms after the call that
\* set it: what was set by then has been rendered and the effects have run
DelayedStep ==
    /\ rendered = Closure
    /\ handleMoveRef = rendered
    /\ \E i \in FirstTimer("spawn") :
          \E rnd \in SampleIndexes(Len(emptyCells(timers[i].newGrid))), lt \in BOOLEAN :
              \E s \in {delayedStep(timers[i], addRandomTile(timers[i].newGrid, rnd, lt))} :
                  /\ grid' = s.grid
                  /\ score' = s.score
                  /\ bestScore' = IF s.setBestScore THEN s.score ELSE bestScore
                  /\ hasWonGame' = (hasWonGame \/ s.setHasWonGame)
                  /\ timers' = WithoutTimer(i) \o s.timeout
                  /\ tally' = [tally EXCEPT !.spawned = @ + 1,
                                            !.alerts = @ + (IF s.setHasWonGame THEN 1 ELSE 0)]
    /\ isMoving' = FALSE
    /\ lastMoveTimeRef' = IF lastMoveTimeRef > 0 THEN lastMoveTimeRef - 1 ELSE lastMoveTimeRef
    /\ op' = "none"
    /\ UNCHANGED <<history, rendered, handleMoveRef, leaderboard>>
    /\ UNCHANGED <<currentUsername, storage, profile>>
    /\ UNCHANGED <<arg, ret, inputSum, row, rowRet, heap>>

\* handleGameOver runs, 300 ms after the callback that set it, up to its
\* await of getSupabaseUser, which gives a user or null (always null in
\* guest mode)
HandleGameOver ==
    /\ rendered = Closure
    /\ handleMoveRef = rendered
    /\ \E i \in FirstTimer("gameOver") :
          /\ storage' = handleGameOver(timers[i], storage)
          /\ \E supabaseUser \in (IF storage.currentUser = "guest" THEN {FALSE} ELSE BOOLEAN) :
                timers' = Append(WithoutTimer(i),
                                 [kind |-> "upload", newScore |-> timers[i].newScore,
                                  supabaseUser |-> supabaseUser])
    /\ op' = "handleGameOver"
    /\ UNCHANGED <<grid, score, bestScore, history, hasWonGame, isMoving, rendered,
                   handleMoveRef, lastMoveTimeRef, leaderboard, tally>>
    /\ UNCHANGED <<currentUsername, profile>>
    /\ UNCHANGED <<arg, ret, inputSum, row, rowRet, heap>>

\* getSupabaseUser has returned: handleGameOver goes on to updateBestScore
\* and uploadScore if it gave a user, and shows the alert 'Game Over'
GameOverAlert ==
    /\ \E i \in FirstTimer("upload") :
          /\ \E up \in {upload(timers[i], profile, leaderboard)} :
                /\ profile' = up.profile
                /\ leaderboard' = up.leaderboard
          /\ timers' = WithoutTimer(i)
    /\ op' = "alert"
    /\ UNCHANGED <<grid, score, bestScore, history, hasWonGame, isMoving, rendered,
                   handleMoveRef, lastMoveTimeRef, tally>>
    /\ UNCHANGED <<currentUsername, storage>>
    /\ UNCHANGED <<arg, ret, inputSum, row, rowRet, heap>>

\* React renders what the accelerometer listener, a setTimeout callback or
\* initUser has set: the effects of the render before are run first, if
\* they have not been, then the functions of the component are defined anew
Render ==
    /\ handleMoveRef # NoClosure
    /\ rendered # Closure
    /\ handleMoveRef' = rendered
    /\ storage' = effects(handleMoveRef, rendered, storage)
    /\ rendered' = Closure
    /\ op' = "none"
    /\ UNCHANGED <<grid, score, bestScore, history, hasWonGame, isMoving,
                   lastMoveTimeRef, timers, leaderboard, tally>>
    /\ UNCHANGED <<currentUsername, profile>>
    /\ UNCHANGED <<arg, ret, inputSum, row, rowRet, heap>>

\* the effects of the last render run: handleMoveRef.current = handleMove,
\* autoSave, and after the first render initUser, which awaits getCurrentUser
RunEffects ==
    /\ handleMoveRef # rendered
    /\ handleMoveRef' = rendered
    /\ storage' = effects(handleMoveRef, rendered, storage)
    /\ timers' = IF handleMoveRef = NoClosure
                 THEN Append(timers, [kind |-> "initUser"])
                 ELSE timers
    /\ op' = "none"
    /\ UNCHANGED <<grid, score, bestScore, history, hasWonGame, isMoving, rendered,
                   lastMoveTimeRef, leaderboard, tally>>
    /\ UNCHANGED <<currentUsername, profile>>
    /\ UNCHANGED <<arg, ret, inputSum, row, rowRet, heap>>

\* getCurrentUser has returned: setCurrentUsername(username || 'guest')
InitUser ==
    /\ \E i \in FirstTimer("initUser") :
          /\ currentUsername' = initUser(storage)
          /\ timers' = WithoutTimer(i)
    /\ op' = "none"
    /\ UNCHANGED <<grid, score, bestScore, history, hasWonGame, isMoving, rendered,
                   handleMoveRef, lastMoveTimeRef, leaderboard, tally>>
    /\ UNCHANGED <<storage, profile>>
    /\ UNCHANGED <<arg, ret, inputSum, row, rowRet, heap>>

NextSession ==
    \/ \E direction \in Directions : OnTouchEnd(direction)
    \/ \E direction \in Directions : AccelerometerListener(direction)
    \/ MoveIntervalPasses
    \/ Undo
    \/ StartNewGame
    \/ DelayedStep
    \/ HandleGameOver
    \/ GameOverAlert
    \/ Render
    \/ RunEffects
    \/ InitUser

SpecSession == InitSession /\ [][NextSession]_vars

-----------------------------------------------------------------------------
(* updateBestScore called for one user, from one device or several.  A call *)
(* awaits the select of best_score and then, if its score is higher, the   *)
(* update; timers holds the calls that await one of the two, best_score of *)
(* a call being what its select returned (-1 while it awaits the select).  *)
(* tally.submitted is the set of scores of the calls that have returned    *)
(* success.                                                                *)

\* scores that games end with
FinalScores == {10, 20, 30, 40}

\* best_score of the row before the calls
StoredBestScores == {0, 20}

InitBest ==
    /\ profile \in StoredBestScores
    /\ timers = <<>>
    /\ tally = [NoTally EXCEPT !.startScore = profile]
    /\ leaderboard = <<>>
    /\ currentUsername = "guest"
    /\ storage = NoStorage
    /\ score = 0
    /\ bestScore = 0
    /\ history = NoHistory
    /\ hasWonGame = FALSE
    /\ isMoving = FALSE
    /\ rendered = NoClosure
    /\ handleMoveRef = NoClosure
    /\ lastMoveTimeRef = LongAgo
    /\ grid = createEmptyGrid
    /\ op = "none"
    /\ arg = createEmptyGrid
    /\ ret = NoRet
    /\ inputSum = 0
    /\ row = NoRow
    /\ rowRet = NoRowRet
    /\ heap = <<>>

\* updateBestScore(userId, newScore) is called and sends its select
UpdateBestScore(newScore) ==
    /\ tally.requests < MaxCalls
    /\ timers' = Append(timers, [kind |-> "updateBestScore", newScore |-> newScore,
                                  best_score |-> -1])
    /\ tally' = [tally EXCEPT !.requests = @ + 1]
    /\ UNCHANGED profile
    /\ UNCHANGED <<score, bestScore, history, hasWonGame, isMoving, rendered, handleMoveRef,
                   lastMoveTimeRef, leaderboard, currentUsername, storage>>
    /\ UNCHANGED <<grid, op, arg, ret, inputSum, row, rowRet, heap>>

\* the select of call i returns: with fetchError the call returns failure;
\* else it compares newScore with the best_score it got, and sends the update
\* or returns success
SelectReturns(i) ==
    /\ timers[i].kind = "updateBestScore"
    /\ timers[i].best_score = -1
    /\ \E fetchError \in BOOLEAN :
          IF fetchError
          THEN /\ timers' = WithoutTimer(i)
               /\ UNCHANGED tally
          ELSE IF timers[i].newScore > profile
               THEN /\ timers' = [j \in 1..Len(timers) |->
                                     IF j = i
                                     THEN [kind |-> "updateBestScore",
                                           newScore |-> timers[i].newScore,
                                           best_score |-> profile]
                                     ELSE timers[j]]
                    /\ UNCHANGED tally
               ELSE /\ timers' = WithoutTimer(i)
                    /\ tally' = [tally EXCEPT !.submitted = @ \cup {timers[i].newScore}]
    /\ UNCHANGED profile
    /\ UNCHANGED <<score, bestScore, history, hasWonGame, isMoving, rendered, handleMoveRef,
                   lastMoveTimeRef, leaderboard, currentUsername, storage>>
    /\ UNCHANGED <<grid, op, arg, ret, inputSum, row, rowRet, heap>>

\* the update of call i is applied to the row (or fails) and the call returns
UpdateReturns(i) ==
    /\ timers[i].kind = "updateBestScore"
    /\ timers[i].best_score # -1
    /\ \E updateError \in BOOLEAN :
          /\ profile' = IF updateError THEN profile ELSE timers[i].newScore
          /\ tally' = IF updateError THEN tally
                      ELSE [tally EXCEPT !.submitted = @ \cup {timers[i].newScore}]
    /\ timers' = WithoutTimer(i)
    /\ UNCHANGED <<score, bestScore, history, hasWonGame, isMoving, rendered, handleMoveRef,
                   lastMoveTimeRef, leaderboard, currentUsername, storage>>
    /\ UNCHANGED <<grid, op, arg, ret, inputSum, row, rowRet, heap>>

NextBest ==
    \/ \E newScore \in FinalScores : UpdateBestScore(newScore)
    \/ \E i \in 1..Len(timers) : SelectReturns(i)
    \/ \E i \in 1..Len(timers) : UpdateReturns(i)

SpecBest == InitBest /\ [][NextBest]_vars

-----------------------------------------------------------------------------
(* What a line of tiles becomes when it slides towards its first element:  *)
(* pairs are matched from the leading edge, and a tile made by a merge is  *)
(* put down without looking at it again                                    *)

Tiles(line) == SelectSeq(line, NonZero)

RECURSIVE PairUp(_)
PairUp(tiles) ==
    IF Len(tiles) < 2 THEN tiles
    ELSE IF tiles[1] = tiles[2]
         THEN <<tiles[1] + tiles[2]>> \o PairUp(SubSeq(tiles, 3, Len(tiles)))
         ELSE <<tiles[1]>> \o PairUp(SubSeq(tiles, 2, Len(tiles)))

\* the tiles PairUp makes by merging, summed
RECURSIVE PairScore(_)
PairScore(tiles) ==
    IF Len(tiles) < 2 THEN 0
    ELSE IF tiles[1] = tiles[2]
         THEN tiles[1] + tiles[2] + PairScore(SubSeq(tiles, 3, Len(tiles)))
         ELSE PairScore(SubSeq(tiles, 2, Len(tiles)))

ZeroPadded(tiles) == [i \in Idx |-> IF i <= Len(tiles) THEN tiles[i] ELSE 0]

Slid(line) == ZeroPadded(PairUp(Tiles(line)))

LeftCompacted(line) == \A i \in 1..Len(line) : \A j \in i..Len(line) : line[i] = 0 => line[j] = 0

-----------------------------------------------------------------------------
(* C1: slideAndMergeRow lets each tile take part in at most one merge: its *)
(* newRow is the row's tiles paired up from the leading edge, each pair    *)
(* merged once and a merged tile never merged again, left-compacted and    *)
(* zero-padded to length 4, and every tile of newRow is a tile of the row  *)
(* or twice one; [2,2,2,2] gives [4,4,0,0] with scoreGained 8 and          *)
(* [0,0,0,0] gives [0,0,0,0] with scoreGained 0.                           *)
MergeOncePerMove ==
    op = "slideAndMergeRow" =>
        /\ Len(rowRet.newRow) = Size
        /\ LeftCompacted(rowRet.newRow)
        /\ rowRet.newRow = Slid(row)
        /\ 2 * Len(Tiles(rowRet.newRow)) >= Len(Tiles(row))
        /\ \A i \in Idx : rowRet.newRow[i] # 0 =>
               \E j \in Idx : row[j] # 0 /\ rowRet.newRow[i] \in {row[j], 2 * row[j]}
        /\ row = <<2, 2, 2, 2>> => rowRet = [newRow |-> <<4, 4, 0, 0>>, scoreGained |-> 8]
        /\ row = <<0, 0, 0, 0>> => rowRet = [newRow |-> <<0, 0, 0, 0>>, scoreGained |-> 0]

\* the row [2,2,4,0], where a cascading merge would give [8,0,0,0], has been
\* merged once
MergeOncePerMoveWitness ==
    /\ op = "slideAndMergeRow"
    /\ row = <<2, 2, 4, 0>>
    /\ rowRet.newRow = <<4, 4, 0, 0>>

-----------------------------------------------------------------------------
(* Grids seen along the direction of a move *)

\* line k of the grid read from the edge the tiles move towards: for LEFT row
\* k left to right, for RIGHT row k right to left, for UP column k top to
\* bottom, for DOWN column k bottom to top
Line(g, d, k) ==
    [i \in Idx |-> CASE d = "LEFT" -> g[k][i]
                     [] d = "RIGHT" -> g[k][Size + 1 - i]
                     [] d = "UP" -> g[i][k]
                     [] d = "DOWN" -> g[Size + 1 - i][k]]

TileCount(g) == Cardinality({p \in Cells : g[p[1]][p[2]] # 0})

DifferingCells(g, h) == {p \in Cells : g[p[1]][p[2]] # h[p[1]][p[2]]}

RECURSIVE Log2(_)
Log2(n) == IF n <= 1 THEN 0 ELSE 1 + Log2(n \div 2)

\* the sum over the tiles of value times exponent: merging two tiles v into
\* one tile 2v raises it by exactly 2v
Weight(g) == SumSeq([k \in 1..(Size * Size) |->
                 LET v == g[((k - 1) \div Size) + 1][((k - 1) % Size) + 1]
                 IN  v * Log2(v)])

-----------------------------------------------------------------------------
(* C2: move(g, d).moved is true if and only if move(g, d).newGrid differs  *)
(* from g in at least one cell, for every direction d.                     *)
MovedIffChanged ==
    op \in Directions => (ret.moved <=> DifferingCells(ret.newGrid, arg) # {})

\* a move UP that only slid tiles, without a merge, reported moved
MovedIffChangedWitness ==
    /\ op = "UP"
    /\ ret.moved
    /\ ret.scoreGained = 0
    /\ ret.newGrid # arg

-----------------------------------------------------------------------------
(* C3: move's scoreGained is the sum of the values of the tiles newly made *)
(* by merges, each counted once, over the four lines of the direction; it  *)
(* is 0 when no merge happens.                                             *)
ScoreIsMergedTiles ==
    op \in Directions =>
        /\ ret.scoreGained = SumSeq([k \in Idx |-> PairScore(Tiles(Line(arg, op, k)))])
        /\ ret.scoreGained = Weight(ret.newGrid) - Weight(arg)
        /\ TileCount(ret.newGrid) = TileCount(arg) => ret.scoreGained = 0

\* a move DOWN with merges in two columns has been scored
ScoreIsMergedTilesWitness ==
    /\ op = "DOWN"
    /\ TileCount(arg) - TileCount(ret.newGrid) = 2
    /\ \E k \in Idx : PairScore(Tiles(Line(arg, op, k))) \notin {0, ret.scoreGained}

-----------------------------------------------------------------------------
(* C4: mass conservation: the cells of move's newGrid sum to the sum of    *)
(* the input grid's cells; after the addRandomTile that follows, the sum   *)
(* exceeds the input sum by exactly the spawned tile's value (0 if nothing *)
(* was spawned).                                                           *)
SpawnedValue(before, after) ==
    IF DifferingCells(before, after) = {} THEN 0
    ELSE LET p == CHOOSE q \in DifferingCells(before, after) : TRUE
         IN  after[p[1]][p[2]]

MassConservation ==
    /\ op \in Directions => GridSum(ret.newGrid) = inputSum /\ inputSum = GridSum(arg)
    /\ op = "moved" => GridSum(grid) = inputSum
    /\ op = "addRandomTile" => GridSum(grid) = inputSum + SpawnedValue(arg, grid)

\* a tile 4 has been spawned after an accepted move
MassConservationWitness ==
    /\ op = "addRandomTile"
    /\ ret.moved
    /\ SpawnedValue(arg, grid) = 4
    /\ GridSum(grid) = inputSum + 4

-----------------------------------------------------------------------------
(* C5: the four moves are the row primitive applied along the axis: each   *)
(* line of newGrid, read from the edge the tiles move towards, is          *)
(* slideAndMergeRow's newRow of the same line of the input, and            *)
(* scoreGained is the sum over the four lines.  Row [2,0,0,2] moved RIGHT  *)
(* becomes [0,0,0,4] with score 4, column [2,2,0,0] moved UP becomes       *)
(* [4,0,0,0] with score 4.                                                 *)
RowRight2002 == SetRow(createEmptyGrid, 1, <<2, 0, 0, 2>>)

ColumnUp2200 == SetCell(SetCell(createEmptyGrid, 1, 1, 2), 2, 1, 2)

MovesAreRowPrimitive ==
    op \in Directions =>
        /\ \A k \in Idx : Line(ret.newGrid, op, k) = slideAndMergeRow(Line(arg, op, k)).newRow
        /\ ret.scoreGained = SumSeq([k \in Idx |-> slideAndMergeRow(Line(arg, op, k)).scoreGained])
        /\ (op = "RIGHT" /\ arg = RowRight2002) =>
               /\ ret.newGrid = SetRow(createEmptyGrid, 1, <<0, 0, 0, 4>>)
               /\ ret.scoreGained = 4
               /\ ret.moved
        /\ (op = "UP" /\ arg = ColumnUp2200) =>
               /\ ret.newGrid = SetCell(createEmptyGrid, 1, 1, 4)
               /\ ret.scoreGained = 4
               /\ ret.moved

\* the column [2,2,0,0] has been moved UP
MovesAreRowPrimitiveWitness ==
    /\ op = "UP"
    /\ arg = ColumnUp2200
    /\ ret.newGrid[1][1] = 4
    /\ ret.scoreGained = 4

-----------------------------------------------------------------------------
(* Grids as the player sees them *)

EmptyCellSet(g) == {p \in Cells : g[p[1]][p[2]] = 0}

\* the pairs of cells next to each other in a row or in a column
NeighbourPairs ==
    {<<p, q>> \in Cells \X Cells :
        \/ (p[1] = q[1] /\ q[2] = p[2] + 1)
        \/ (p[2] = q[2] /\ q[1] = p[1] + 1)}

NoEqualNeighbours(g) == \A pq \in NeighbourPairs : g[pq[1][1]][pq[1][2]] # g[pq[2][1]][pq[2][2]]

NoMoveChanges(g) ==
    \A d \in Directions :
        /\ ~move(g, d).moved
        /\ move(g, d).scoreGained = 0
        /\ move(g, d).newGrid = g

GridMax(g) == CHOOSE v \in {g[p[1]][p[2]] : p \in Cells} : \A p \in Cells : g[p[1]][p[2]] <= v

-----------------------------------------------------------------------------
(* C6: isGameOver returns true if and only if no cell equals 0 and no two  *)
(* horizontally or vertically adjacent cells hold equal values; it returns *)
(* false for every grid with at least one 0 cell.                          *)
GameOverIffFullAndNoEqualNeighbours ==
    op = "isGameOver" =>
        /\ ret.bool <=> (EmptyCellSet(arg) = {} /\ NoEqualNeighbours(arg))
        /\ EmptyCellSet(arg) # {} => ~ret.bool

\* isGameOver has returned false on a full grid whose only equal neighbours
\* are one above the other
GameOverIffFullAndNoEqualNeighboursWitness ==
    /\ op = "isGameOver"
    /\ ~ret.bool
    /\ EmptyCellSet(arg) = {}
    /\ \A r \in Idx : \A c \in 1..(Size - 1) : arg[r][c] # arg[r][c + 1]

-----------------------------------------------------------------------------
(* C7 as claimed: for every legal grid, isGameOver is true if and only if  *)
(* move returns moved = false, scoreGained = 0 and newGrid equal to the    *)
(* grid for all four directions.                                           *)
GameOverIffNoMoveChanges ==
    op = "isGameOver" => (ret.bool <=> NoMoveChanges(arg))

(* C7 as amended: for every legal grid with at least one tile, isGameOver  *)
(* is true if and only if move returns moved = false, scoreGained = 0 and  *)
(* newGrid equal to the grid for all four directions; on the grid without  *)
(* tiles no move changes anything and isGameOver is false.                 *)
GameOverIffNoMoveChangesWithTiles ==
    op = "isGameOver" =>
        /\ TileCount(arg) > 0 => (ret.bool <=> NoMoveChanges(arg))
        /\ TileCount(arg) = 0 => (~ret.bool /\ NoMoveChanges(arg))

\* isGameOver has returned true on a grid that no move changes
GameOverIffNoMoveChangesWithTilesWitness ==
    /\ op = "isGameOver"
    /\ ret.bool
    /\ TileCount(arg) = Size * Size
    /\ NoMoveChanges(arg)

-----------------------------------------------------------------------------
(* C8: hasWon is true if and only if at least one cell equals exactly      *)
(* 2048; a grid whose maximum is 1024, or one with 4096 and no 2048,       *)
(* yields false.                                                           *)
WonIffSome2048 ==
    op = "hasWon" =>
        /\ ret.bool <=> (\E p \in Cells : arg[p[1]][p[2]] = 2048)
        /\ GridMax(arg) = 1024 => ~ret.bool
        /\ (GridMax(arg) = 4096 /\ \A p \in Cells : arg[p[1]][p[2]] # 2048) => ~ret.bool

\* hasWon has returned false on a grid with a tile 4096 and no tile 2048
WonIffSome2048Witness ==
    /\ op = "hasWon"
    /\ ~ret.bool
    /\ GridMax(arg) = 4096

-----------------------------------------------------------------------------
(* C9: on a grid with at least one empty cell, every result of             *)
(* addRandomTile differs from the input in exactly one cell, which was 0   *)
(* and holds 2 or 4; every empty cell is a possible target (with either    *)
(* value); with exactly one empty cell it is that cell that is filled.     *)
SpawnFillsOneEmptyCell ==
    /\ (op = "addRandomTile" /\ EmptyCellSet(arg) # {}) =>
           /\ Cardinality(DifferingCells(arg, grid)) = 1
           /\ \A p \in DifferingCells(arg, grid) :
                  arg[p[1]][p[2]] = 0 /\ grid[p[1]][p[2]] \in {2, 4}
           /\ Cardinality(EmptyCellSet(arg)) = 1 => DifferingCells(arg, grid) = EmptyCellSet(arg)
           /\ ret.newGrid = grid
    /\ op \in {"none", "moved"} =>
           \A p \in EmptyCellSet(grid) :
               \E rnd \in RandomIndexes(Len(emptyCells(grid))) :
                   /\ addRandomTile(grid, rnd, TRUE)[p[1]][p[2]] = 2
                   /\ addRandomTile(grid, rnd, FALSE)[p[1]][p[2]] = 4

\* the only empty cell of a grid, in the last column, has been filled
SpawnFillsOneEmptyCellWitness ==
    /\ op = "addRandomTile"
    /\ Cardinality(EmptyCellSet(arg)) = 1
    /\ \E r \in Idx : arg[r][Size] = 0 /\ grid[r][Size] = 4
    /\ EmptyCellSet(grid) = {}

-----------------------------------------------------------------------------
(* C10: addRandomTile on a grid with no empty cell returns a grid equal to *)
(* its input in every cell.                                                *)
SpawnOnFullGridIsNoOp ==
    (op = "addRandomTile" /\ EmptyCellSet(arg) = {}) =>
        /\ \A p \in Cells : ret.newGrid[p[1]][p[2]] = arg[p[1]][p[2]]
        /\ Len(ret.newGrid) = Size
        /\ \A r \in Idx : Len(ret.newGrid[r]) = Size

\* addRandomTile has returned on a full grid
SpawnOnFullGridIsNoOpWitness ==
    /\ op = "addRandomTile"
    /\ EmptyCellSet(arg) = {}
    /\ ret.newGrid = arg

-----------------------------------------------------------------------------
(* C11: every grid initializeGrid returns has exactly two non-zero cells,  *)
(* in two distinct positions, each holding 2 or 4, and 14 cells equal to   *)
(* 0.                                                                      *)
InitialGridHasTwoTiles ==
    op = "initializeGrid" =>
        /\ Cardinality({p \in Cells : grid[p[1]][p[2]] # 0}) = 2
        /\ \A p \in Cells : grid[p[1]][p[2]] \in {0, 2, 4}
        /\ Cardinality(EmptyCellSet(grid)) = Size * Size - 2

\* initializeGrid has returned a grid with a tile 2 in its first cell and a
\* tile 4 in its last
InitialGridHasTwoTilesWitness ==
    /\ op = "initializeGrid"
    /\ grid[1][1] = 2
    /\ grid[Size][Size] = 4

-----------------------------------------------------------------------------
(* C12: every grid reached from initializeGrid by moves and spawns in any  *)
(* order has 4 rows of 4 cells, and every cell is 0 or a power of two that *)
(* is at least 2: no cell is negative or another number.                   *)
RECURSIVE IsPowerOfTwo(_)
IsPowerOfTwo(n) == n >= 2 /\ (n = 2 \/ (n % 2 = 0 /\ IsPowerOfTwo(n \div 2)))

GridIsWellFormed ==
    /\ Len(grid) = Size
    /\ \A r \in 1..Len(grid) :
           /\ Len(grid[r]) = Size
           /\ \A c \in 1..Len(grid[r]) : grid[r][c] = 0 \/ IsPowerOfTwo(grid[r][c])

\* a move has merged two tiles 4 into a tile 8, with another tile on the grid
GridIsWellFormedWitness ==
    /\ op \in Directions
    /\ \E p \in Cells : grid[p[1]][p[2]] = 8
    /\ TileCount(grid) >= 2

-----------------------------------------------------------------------------
(* C14: move called with a value that is none of UP, DOWN, LEFT and RIGHT  *)
(* returns the input grid unchanged, scoreGained = 0 and moved = false,    *)
(* and raises no error.                                                    *)
OtherDirectionMovesNothing ==
    op \in NotDirections =>
        /\ ret.newGrid = arg
        /\ ret.scoreGained = 0
        /\ ~ret.moved
        /\ grid = arg

\* move has returned for a value that is no direction, on a grid that a move
\* LEFT changes
OtherDirectionMovesNothingWitness ==
    /\ op = "left"
    /\ ret.newGrid = arg
    /\ ~ret.moved
    /\ move(arg, "LEFT").moved

-----------------------------------------------------------------------------
(* C15: on a grid whose rows are each left-compacted and hold no two equal *)
(* non-zero values next to each other, moveLeft returns a grid equal to    *)
(* its input, scoreGained = 0 and moved = false; so a second moveLeft, on  *)
(* the grid the first returned, reports moved = false.                     *)
NoEqualPairInRow(line) ==
    \A i \in 1..(Len(line) - 1) : line[i] # 0 => line[i] # line[i + 1]

LeftFixed(g) == \A r \in Idx : LeftCompacted(g[r]) /\ NoEqualPairInRow(g[r])

MoveLeftFixedPoint ==
    (op = "LEFT" /\ LeftFixed(arg)) =>
        /\ ret.newGrid = arg
        /\ ret.scoreGained = 0
        /\ ~ret.moved
        /\ ~moveLeft(ret.newGrid).moved

\* moveLeft has returned on a grid with a row [2,4,2,0], which is
\* left-compacted and has no equal pair
MoveLeftFixedPointWitness ==
    /\ op = "LEFT"
    /\ LeftFixed(arg)
    /\ \E r \in Idx : arg[r] = <<2, 4, 2, 0>>
    /\ ~ret.moved

-----------------------------------------------------------------------------
(* C13: move in each of the four directions, addRandomTile and cloneGrid   *)
(* leave the grid they are given unchanged: after the call every cell of   *)
(* the caller's grid holds what it held before.  (Each also returns what   *)
(* it returns on a grid nobody else holds.)                                *)
InputGridUntouched ==
    op # "none" =>
        /\ arg = grid
        /\ \A k \in 1..InputRef : heap[k] = HeapOf(grid)[k]
        /\ op \in Directions => ret.newGrid = move(grid, op).newGrid
        /\ op = "cloneGrid" => ret.newGrid = grid
        /\ op = "addRandomTile" => Cardinality(DifferingCells(ret.newGrid, grid)) <= 1

\* addRandomTile has written a tile 4 into the last row of its clone, and
\* the caller's grid still has that cell empty
InputGridUntouchedWitness ==
    /\ op = "addRandomTile"
    /\ \E c \in Idx : ret.newGrid[Size][c] = 4 /\ grid[Size][c] = 0 /\ arg[Size][c] = 0
    /\ Len(heap) > InputRef

-----------------------------------------------------------------------------
(* Steps of a session *)

\* handleMove has been called and move reported moved = false
RejectedMove == tally'.rejected = tally.rejected + 1

\* handleMove has been called and has accepted the move
AcceptedMove == tally'.accepted = tally.accepted + 1

SpawnTimers == SelectSeq(timers, LAMBDA t : t.kind = "spawn")

GameOverTimers == SelectSeq(timers, LAMBDA t : t.kind = "gameOver")

\* the callback of an accepted move has run
SpawnStep == tally'.spawned = tally.spawned + 1

-----------------------------------------------------------------------------
(* C16: a move request for which move reports moved = false leaves the     *)
(* session's grid and score unchanged and schedules no tile spawn.         *)
RejectedMoveKeepsGridAndScore ==
    [][RejectedMove =>
          /\ grid' = grid
          /\ score' = score
          /\ timers' = timers
          /\ isMoving' = isMoving]_vars

\* a move DOWN has been rejected on the saved grid NearOver, which a move
\* LEFT changes
RejectedMoveKeepsGridAndScoreWitness ==
    /\ tally.rejected = 1
    /\ tally.accepted = 0
    /\ grid = NearOver
    /\ score = 20
    /\ timers = <<>>
    /\ move(grid, "LEFT").moved

-----------------------------------------------------------------------------
(* C17: a rejected move (moved = false) leaves the undo history unchanged: *)
(* it stays null, or the snapshot an earlier accepted move took.           *)
RejectedMoveKeepsHistory == [][RejectedMove => history' = history]_vars

-----------------------------------------------------------------------------
(* C20: while an accepted move is in flight, between its acceptance and    *)
(* the end of its delayed spawn, no second move request from either input  *)
(* source is accepted: at most one spawn is pending at any time.           *)
AtMostOneSpawnPending == Len(SpawnTimers) <= 1

-----------------------------------------------------------------------------
(* C18: every accepted move is followed by exactly one tile spawn: at any  *)
(* time each accepted move has had its delayed step run once or has it     *)
(* pending once, in a callback that setTimeout calls.  When the step has   *)
(* run, the session grid is the move's newGrid with exactly one formerly   *)
(* empty cell set to 2 or 4, and the win and game-over checks have been    *)
(* made on that grid: hasWonGame is set if it holds 2048 and the render of *)
(* the move had not won, and handleGameOver is scheduled if and only if    *)
(* isGameOver holds of it.                                                 *)
SpawnFollowsAcceptedMove ==
    /\ [][SpawnStep =>
              /\ SpawnTimers # <<>>
              /\ SpawnTimers' = Tail(SpawnTimers)
              /\ Cardinality(DifferingCells(grid', SpawnTimers[1].newGrid)) = 1
              /\ \A p \in DifferingCells(grid', SpawnTimers[1].newGrid) :
                     SpawnTimers[1].newGrid[p[1]][p[2]] = 0 /\ grid'[p[1]][p[2]] \in {2, 4}
              /\ hasWonGame' <=> (hasWonGame \/ (~SpawnTimers[1].hasWonGame /\ hasWon(grid')))
              /\ isGameOver(grid') <=> Len(GameOverTimers') = Len(GameOverTimers) + 1
              /\ Len(GameOverTimers') >= Len(GameOverTimers)]_vars
    /\ [][AcceptedMove => SpawnTimers' = Append(SpawnTimers, SpawnTimers'[Len(SpawnTimers')])]_vars
    /\ [](tally.spawned + Len(SpawnTimers) = tally.accepted)

\* the spawn after an accepted move has filled the last empty cell and left
\* a grid without a move: handleGameOver is scheduled
SpawnFollowsAcceptedMoveWitness ==
    /\ tally.accepted = 1
    /\ tally.spawned = 1
    /\ EmptyCellSet(grid) = {}
    /\ isGameOver(grid)
    /\ Len(GameOverTimers) = 1

-----------------------------------------------------------------------------
(* C19: after any sequence of move requests in one game, the session score *)
(* is the score the game started with plus the sum of scoreGained over the *)
(* accepted moves, and the score handed to the leaderboard at game over is *)
(* that value.  (The score is set when the delayed spawn of a move runs,   *)
(* so it is read when no spawn is pending; tally.plain: no undo and no new *)
(* game so far.)                                                           *)
ScoreIsStartPlusGains ==
    /\ (tally.plain /\ SpawnTimers = <<>>) => score = tally.startScore + tally.gained
    /\ (tally.plain /\ timers = <<>> /\ leaderboard # <<>>) =>
           leaderboard[Len(leaderboard)] = tally.startScore + tally.gained

-----------------------------------------------------------------------------
\* the merges a move makes: along each line, the tiles less the tiles left
\* when pairs are matched from the leading edge
Merges(g, d) ==
    SumSeq([k \in Idx |-> Len(Tiles(Line(g, d, k))) - Len(PairUp(Tiles(Line(g, d, k))))])

(* C29: for every grid and direction with move(g, d).moved = true the      *)
(* resulting grid has at least one empty cell, and its number of tiles is  *)
(* the number before less the number of merges; so the spawn that follows  *)
(* an accepted move always places a tile, never meeting addRandomTile's    *)
(* full-grid case.                                                         *)
MovedLeavesEmptyCell ==
    /\ (op \in Directions /\ ret.moved) =>
           /\ EmptyCellSet(ret.newGrid) # {}
           /\ TileCount(ret.newGrid) = TileCount(arg) - Merges(arg, op)
    /\ (op = "addRandomTile" /\ ret.moved) =>
           /\ EmptyCellSet(arg) # {}
           /\ TileCount(grid) = TileCount(arg) + 1

\* a full grid has moved: its only empty cell after the move is the one a
\* single merge has freed
MovedLeavesEmptyCellWitness ==
    /\ op \in Directions
    /\ ret.moved
    /\ EmptyCellSet(arg) = {}
    /\ Merges(arg, op) = 1
    /\ Cardinality(EmptyCellSet(ret.newGrid)) = 1

-----------------------------------------------------------------------------
SetMax(S) == CHOOSE v \in S : \A w \in S : w <= v

(* C25: updateBestScore only ever raises the stored best score: over any   *)
(* sequence of calls for one user, also calls whose select and update      *)
(* interleave, best_score of the user's row never decreases, and when all  *)
(* calls have returned it is the maximum of its value before and the       *)
(* scores submitted.                                                       *)
BestScoreOnlyRises ==
    /\ [][profile' >= profile]_vars
    /\ [](timers = <<>> => profile = SetMax({tally.startScore} \cup tally.submitted))

-----------------------------------------------------------------------------
\* handleMove has been called
MoveRequest == tally'.requests = tally.requests + 1

\* the step is an undo, a new game, the alert 'Game Over'
UndoStep == op' = "undo"

NewGameStep == op' = "startNewGame" /\ tally'.presses = tally.presses + 1

GameOverAlertStep == op' = "alert" /\ Len(timers') < Len(timers)

(* C21: Terminal is absorbing in the session: once the session grid        *)
(* satisfies isGameOver, no move request in any direction is accepted or   *)
(* changes grid or score, and the only operation that replaces the         *)
(* terminal grid is the new game, which puts a grid of initializeGrid in   *)
(* its place.                                                              *)
TerminalIsAbsorbing ==
    /\ [][(isGameOver(grid) /\ MoveRequest) =>
              (~AcceptedMove /\ grid' = grid /\ score' = score)]_vars
    /\ [][(isGameOver(grid) /\ grid' # grid) => NewGameStep]_vars
    /\ [][(isGameOver(grid) /\ NewGameStep) => (TileCount(grid') = 2 /\ score' = 0)]_vars

-----------------------------------------------------------------------------
\* handleGameOver has run up to its await of getSupabaseUser
GameOverHandlingStep == op' = "handleGameOver" /\ timers' # timers

-----------------------------------------------------------------------------
\* the renders whose handleMove a request can reach: the last one (a touch)
\* and the one handleMoveRef holds (the accelerometer)
Callers == {rendered, handleMoveRef}

(* C22: within one game, from one new-game operation to the next, the win  *)
(* notification is scheduled at most once and the won flag never goes from *)
(* true to false; with a tile 2048 on a grid that is not game over a move  *)
(* request is turned down only as on any other grid: a move is in flight,  *)
(* or move reports moved = false.                                          *)
WinObservedOnce ==
    /\ [](tally.alerts <= 1)
    /\ [][(hasWonGame /\ ~NewGameStep) => hasWonGame']_vars
    /\ [][(MoveRequest /\ hasWon(grid) /\ ~isGameOver(grid) /\ ~AcceptedMove) =>
              \E c \in Callers :
                  \/ c.isMoving
                  \/ RejectedMove /\ \E d \in Directions : ~move(c.grid, d).moved]_vars

-----------------------------------------------------------------------------
(* C24: undo reverts exactly the last accepted move and works once: when   *)
(* it applies it puts back the grid and the score the session had when     *)
(* that move was accepted and clears the history; it applies only if a     *)
(* move has been accepted since the last undo or new game, and changes     *)
(* nothing otherwise.                                                      *)
UndoRevertsLastAcceptedMove ==
    /\ [][(UndoStep /\ tally.before # NoHistory) =>
              /\ grid' = tally.before.grid
              /\ score' = tally.before.score
              /\ history' = NoHistory]_vars
    /\ [][(UndoStep /\ tally.before = NoHistory) =>
              (grid' = grid /\ score' = score)]_vars

-----------------------------------------------------------------------------
(* C26: the best score stored on the device for a user, as getBestScore    *)
(* reads it, never decreases, and when handleGameOver has done its local   *)
(* handling it is at least the final score of the game that ended.         *)
LocalBestNeverDecreases ==
    /\ [][\A u \in Usernames :
              getBestScore(storage', u) >= getBestScore(storage, u)]_vars
    /\ [][GameOverHandlingStep =>
              \E i \in FirstTimer("gameOver") :
                  getBestScore(storage', timers[i].currentUsername) >= timers[i].newScore]_vars

-----------------------------------------------------------------------------
(* C27: a finished game cannot be resumed: when handleGameOver has run to  *)
(* its end and shows the alert 'Game Over', in a session that has started  *)
(* no new game, no saved game is left under the key of the session's user  *)
(* (loadGameState gives null), however the autosave and the clearing are   *)
(* interleaved.                                                            *)
FinishedGameIsNotSaved ==
    [][(GameOverAlertStep /\ tally.presses = 0) =>
           storage'.gameState[currentUsername] = NoItem]_vars

-----------------------------------------------------------------------------
(* C28: saved games are isolated per user: no step of a session creates,   *)
(* overwrites or removes the saved game of a username other than the user  *)
(* who is current when the session is opened (the guest included).         *)
SavedGamesArePerUser ==
    [][\A u \in Usernames :
           u # initUser(storage) => storage'.gameState[u] = storage.gameState[u]]_vars

-----------------------------------------------------------------------------
(* C30: in a session whose best score starts at or above its score, after  *)
(* any sequence of moves, spawns, undo and new-game operations the best    *)
(* score is at least the score, and the best score never decreases.        *)
BestScoreBoundsScore ==
    /\ [](bestScore >= score)
    /\ [][bestScore' >= bestScore]_vars

====
